---- MODULE Spec2Model ----
(***************************************************************************)
(* DocuNexus AGI-Agent: the Streamlit session of src/main.py, the request *)
(* pipeline of src/core (model manager, prompt templates, engine,         *)
(* response formatter), the vendor-wrapping operations of the document,   *)
(* media, integration and real-time modules, and the blob-storage mock of *)
(* tests/test_utils.py.                                                   *)
(*                                                                         *)
(* Text is a sequence of tokens.  A token is one word, the whitespace     *)
(* token WS, or one of the two marker tokens; Python's strip and split    *)
(* are computed on these sequences.  A Python value is a record with a    *)
(* `type` field (str, tuple, dict, list, None) and a raised exception is  *)
(* a record of type "raise".                                              *)
(***************************************************************************)
EXTENDS Integers, Sequences, FiniteSets, TLC

\* ------------------------------------------------------------------ bounds
\* Script runs (each one constructs an AGIEngine) explored per behaviour.
MaxLoads == 5
\* Longest model output, in tokens, handed to the formatter.
MaxLen == 4

\* ------------------------------------------------------- Python values
None == [type |-> "None"]

Str(t) == [type |-> "str", text |-> t]

Tuple2(a, b) == [type |-> "tuple", items |-> <<a, b>>]

Raise(exc, msg) == [type |-> "raise", exc |-> exc, msg |-> msg]

IsStr(v) == v.type = "str"

IsRaise(v) == v.type = "raise"

\* s begins with the tokens of p
StartsWith(s, p) == Len(s) >= Len(p) /\ SubSeq(s, 1, Len(p)) = p

\* p occurs in s as a contiguous run of tokens (Python's `p in s`)
Contains(s, p) == \E i \in 1..(Len(s) - Len(p) + 1) : SubSeq(s, i, i + Len(p) - 1) = p

\* -------------------------------------------------------------- tokens
WS == "ws"

\* response_formatter.py:32, the marker the formatter splits on
THOUGHTS_MARKER == "***DocuNexus Thoughts:***"

\* prompt_templates.py:66, the marker the prompt asks the model to use
AZURE_THOUGHTS_MARKER == "***DocuNexus Azure Thoughts:***"

Words == {"a", "t"}

Tokens == Words \cup {WS, THOUGHTS_MARKER, AZURE_THOUGHTS_MARKER}

RECURSIVE SeqsUpTo(_, _)
SeqsUpTo(S, n) ==
    IF n = 0 THEN {<<>>}
    ELSE LET shorter == SeqsUpTo(S, n - 1)
         IN shorter \cup {Append(s, x) : s \in {q \in shorter : Len(q) = n - 1}, x \in S}

\* ------------------------------------------------------ str.strip / split
RECURSIVE LStrip(_)
LStrip(s) == IF s # <<>> /\ Head(s) = WS THEN LStrip(Tail(s)) ELSE s

RECURSIVE RStrip(_)
RStrip(s) == IF s # <<>> /\ s[Len(s)] = WS THEN RStrip(SubSeq(s, 1, Len(s) - 1)) ELSE s

Strip(s) == RStrip(LStrip(s))

\* str.split(sep): the list of the pieces between the occurrences of sep
RECURSIVE Split(_, _)
Split(s, sep) ==
    IF \E i \in 1..Len(s) : s[i] = sep
    THEN LET i == CHOOSE k \in 1..Len(s) : s[k] = sep /\ \A j \in 1..(k - 1) : s[j] # sep
         IN <<SubSeq(s, 1, i - 1)>> \o Split(SubSeq(s, i + 1, Len(s)), sep)
    ELSE <<s>>

\* --------------------------------------------------- ResponseFormatter
format_text_response(response_text) ==
    LET formatted_response == Strip(response_text)
        parts == Split(formatted_response, THOUGHTS_MARKER)
        main_response == Strip(parts[1])
        thoughts == IF Len(parts) > 1 THEN Strip(parts[2]) ELSE <<>>
    IN [main_response |-> main_response, thoughts |-> thoughts]

\* ------------------------------------------------ AzurePromptTemplates
\* The text the template appends when request_thoughts is set.
ThoughtsInstruction ==
    <<WS, AZURE_THOUGHTS_MARKER, WS, "Include", WS, "a", WS, "section", WS, "marked", WS,
      AZURE_THOUGHTS_MARKER, WS, "explaining", WS, "your", WS, "reasoning">>

\* chr(10), the separator of the joined context
NL == "\n"

\* a Python list value
List(items) == [type |-> "list", items |-> items]

\* bool(v) of a context value: None, "" and [] are false
Truthy(v) ==
    CASE v.type = "None" -> FALSE
      [] v.type = "str" -> v.text # <<>>
      [] v.type = "list" -> v.items # <<>>

\* what iterating a context value yields: the elements of a list, the
\* characters of a string
Elements(v) == IF v.type = "str" THEN [i \in 1..Len(v.text) |-> <<v.text[i]>>] ELSE v.items

\* chr(10).join(context_documents)
RECURSIVE JoinLines(_)
JoinLines(docs) ==
    IF docs = <<>> THEN <<>>
    ELSE IF Len(docs) = 1 THEN docs[1]
    ELSE docs[1] \o <<NL>> \o JoinLines(Tail(docs))

\* repr of a string without its quotes: a newline becomes backslash, n
RECURSIVE ReprStr(_)
ReprStr(text) ==
    IF text = <<>> THEN <<>>
    ELSE (IF Head(text) = NL THEN <<"\\", "n">> ELSE <<Head(text)>>) \o ReprStr(Tail(text))

RECURSIVE ReprItems(_)
ReprItems(items) ==
    IF items = <<>> THEN <<>>
    ELSE <<"'">> \o ReprStr(Head(items)) \o <<"'">>
         \o (IF Len(items) > 1 THEN <<",", WS>> ELSE <<>>) \o ReprItems(Tail(items))

\* what an f-string puts in place of {v}: the string itself, repr of a list
Format(v) == IF v.type = "str" THEN v.text ELSE <<"[">> \o ReprItems(v.items) \o <<"]">>

\* prompt_templates.py:44-67
_document_analysis_prompt(user_prompt, context_documents, request_thoughts) ==
    LET body == <<WS, "[Document Analysis Task]", WS, "**User Request:**", WS>>
                \o user_prompt
                \o <<WS, "**Context Documents:**", WS, "---Document Start---", WS>>
                \o (IF Truthy(context_documents) THEN JoinLines(Elements(context_documents))
                    ELSE <<"No documents provided.">>)
                \o <<WS, "---Document End---", WS, "Response Guidelines:", WS>>
    IN IF request_thoughts THEN body \o ThoughtsInstruction ELSE body

\* prompt_templates.py:69-89, request_thoughts defaults to False
_media_summarization_prompt(user_prompt, media_description) ==
    <<WS, "[Media Summarization Task]", WS, "**User Request:**", WS>>
    \o user_prompt
    \o <<WS, "**Media Description:**", WS>>
    \o (IF Truthy(media_description) THEN Format(media_description)
        ELSE <<"No media description provided.">>)
    \o <<WS, "Response Guidelines:", WS>>

\* prompt_templates.py:91-108, the template takes no context
_webcam_vision_prompt(user_prompt, request_thoughts) ==
    LET body == <<WS, "[Webcam Vision Analysis Task]", WS, "**User Question:**", WS>>
                \o user_prompt \o <<WS, "**Instructions:**", WS>>
    IN IF request_thoughts THEN body \o ThoughtsInstruction ELSE body

\* prompt_templates.py:110-122
_default_prompt(user_prompt, context) ==
    <<WS, "[General Inquiry]", WS, "**User Question:**", WS>> \o user_prompt
    \o <<WS, "**Context:**", WS>>
    \o (IF Truthy(context) THEN Format(context) ELSE <<"None">>)
    \o <<WS, "**Response Guidelines:**", WS>>

\* The marker a prompt asks the model to put before its reasoning: the first
\* marker token of the prompt, or "none" when the prompt names no marker.
RequestedMarker(prompt) ==
    IF \E i \in 1..Len(prompt) : prompt[i] \in {THOUGHTS_MARKER, AZURE_THOUGHTS_MARKER}
    THEN prompt[CHOOSE i \in 1..Len(prompt) :
                    /\ prompt[i] \in {THOUGHTS_MARKER, AZURE_THOUGHTS_MARKER}
                    /\ \A j \in 1..(i - 1) : prompt[j] \notin {THOUGHTS_MARKER, AZURE_THOUGHTS_MARKER}]
    ELSE "none"

\* prompt_templates.py:19-42, called without keyword arguments
create_prompt(task_type, user_prompt, context) ==
    IF task_type = "document_analysis"
    THEN _document_analysis_prompt(user_prompt, context, TRUE)
    ELSE IF task_type = "media_summarization"
    THEN _media_summarization_prompt(user_prompt, context)
    ELSE IF task_type = "webcam_vision_analysis"
    THEN _webcam_vision_prompt(user_prompt, TRUE)
    ELSE _default_prompt(user_prompt, context)

\* ------------------------------------------------------------ AppConfig
\* os.environ: the two required API keys are set ("key") or missing ("").
Environments == [Phi4MM_API_KEY : {"", "key"}, AZURE_AI_API_KEY : {"", "key"}]

NoConfig == [type |-> "AppConfig", loaded |-> FALSE]

\* the secrets _load_config asks for: the two required keys and, standing
\* for the optional ones, SNOWFLAKE_USER
SecretNames == {"Phi4MM_API_KEY", "AZURE_AI_API_KEY", "SNOWFLAKE_USER"}

\* os.environ.get(name): "" stands for a variable that is not set
EnvGet(e, name) == IF name \in DOMAIN e THEN e[name] ELSE ""

\* An Azure Key Vault: whether creating its client raises, the value it
\* holds for each secret, and the secrets whose lookup raises.
Vaults == [init_raises : BOOLEAN, values : [SecretNames -> {"", "vault"}], failing : SUBSET SecretNames]

\* the vault of an AppConfig() built without arguments
NoVault == [init_raises |-> FALSE, values |-> [n \in SecretNames |-> ""], failing |-> {}]

\* _get_secret that gives up when the Key Vault lookup raises.
_get_secret_without_fallback(key_vault_client, vault, e, secret_name) ==
    IF key_vault_client
    THEN IF secret_name \notin vault.failing THEN vault.values[secret_name] ELSE ""
    ELSE EnvGet(e, secret_name)

\* config.py:38-58
_get_secret(key_vault_client, vault, e, secret_name) ==
    IF key_vault_client /\ secret_name \notin vault.failing
    THEN vault.values[secret_name]
    ELSE EnvGet(e, secret_name)

\* config.py:60-95: a required key that resolved to nothing raises ValueError
_load_config(key_vault_client, vault, e) ==
    LET multimodal_api_key == _get_secret(key_vault_client, vault, e, "Phi4MM_API_KEY")
        azure_api_key == _get_secret(key_vault_client, vault, e, "AZURE_AI_API_KEY")
    IN IF multimodal_api_key = "" \/ azure_api_key = ""
       THEN Raise("ValueError", <<"API_KEY", "not", "set">>)
       ELSE [type |-> "AppConfig", loaded |-> TRUE,
             multimodal_api_key |-> multimodal_api_key,
             azure_api_key |-> azure_api_key,
             azure_endpoint |-> "https://models.inference.ai.azure.com"]

\* config.py:13-36: the Key Vault client is created when use_key_vault and a
\* vault name are given, and its exception is re-raised; then the
\* configuration is loaded.
AppConfig_init(use_key_vault, key_vault_name, vault, e) ==
    IF use_key_vault /\ key_vault_name # "" /\ vault.init_raises
    THEN Raise("Exception", <<"SecretClient">>)
    ELSE _load_config(use_key_vault /\ key_vault_name # "", vault, e)

\* --------------------------------------------------------- ModelManager
\* What the two loaders can leave: the loaded object, or None when the
\* loader's try block raised (model_manager.py:39-41, 53-55).
LoadOutcomes == [multimodal_ok : BOOLEAN, phi4_ok : BOOLEAN]

\* A loader that, when the Phi-4 client cannot be built, rewrites the endpoint
\* of the configuration it was given.
ModelManager_init_rewrites_config(cfg, lo) ==
    [type |-> "ModelManager",
     config |-> IF lo.phi4_ok THEN cfg ELSE [cfg EXCEPT !.azure_endpoint = "fallback"],
     multimodal_model |-> IF lo.multimodal_ok THEN "MultimodalModel" ELSE "None",
     phi4_model_client |-> IF lo.phi4_ok THEN "Phi4Client" ELSE "None"]

ModelManager_init(cfg, lo) ==
    [type |-> "ModelManager", config |-> cfg,
     multimodal_model |-> IF lo.multimodal_ok THEN "MultimodalModel" ELSE "None",
     phi4_model_client |-> IF lo.phi4_ok THEN "Phi4Client" ELSE "None"]

NoManager == [type |-> "ModelManager", config |-> NoConfig, multimodal_model |-> "None", phi4_model_client |-> "None"]

get_model(mm, use_phi4) ==
    IF use_phi4 /\ mm.phi4_model_client # "None"
    THEN mm.phi4_model_client
    ELSE mm.multimodal_model

get_vision_model(mm) == mm.multimodal_model

\* ------------------------------------------------------------ AGIEngine
\* What one generate_content call can do: return a text, or raise.
ModelTexts == {<<"a">>, <<"a", WS, THOUGHTS_MARKER, WS, "t">>, <<"a", WS, AZURE_THOUGHTS_MARKER, WS, "t">>}

Errors == {"e1"}

\* The class of a raised exception: an azure.core AzureError, or any other.
ExceptionKinds == {"AzureError", "Exception"}

CallOutcomes == [ok : {TRUE}, text : ModelTexts, exc : {"none"}, err : {"none"}]
                \cup [ok : {FALSE}, text : {<<>>}, exc : ExceptionKinds, err : Errors]

\* process_text_request that formats whatever came back, the error included.
process_text_request_formats_errors(mm, prompt, use_phi4, out) ==
    LET model == get_model(mm, use_phi4)
        full_prompt == create_prompt("document_analysis", prompt, None)
        text == IF model = "None" THEN <<"AttributeError">>
                ELSE IF out.ok THEN out.text ELSE <<"Error", out.err>>
        f == format_text_response(text)
    IN [result |-> Tuple2(Str(f.main_response), Str(f.thoughts)),
        steps |-> IF model = "None" THEN <<"prompt", "format">> ELSE <<"prompt", "call", "format">>,
        calls |-> IF model = "None" THEN <<>> ELSE <<"generate_content">>, full_prompt |-> full_prompt]

\* process_text_request that calls the model a second time when the first call
\* raised.
process_text_request_retries(mm, prompt, use_phi4, out) ==
    LET model == get_model(mm, use_phi4)
        full_prompt == create_prompt("document_analysis", prompt, None)
    IN IF model = "None"
       THEN [result |-> Str(<<"Error processing request with AI model:", "AttributeError">>),
             steps |-> <<"prompt">>, calls |-> <<>>, full_prompt |-> full_prompt]
       ELSE IF ~out.ok
       THEN [result |-> Str(<<"Error processing request with AI model:", out.err>>),
             steps |-> <<"prompt", "call", "call">>,
             calls |-> <<"generate_content", "generate_content">>, full_prompt |-> full_prompt]
       ELSE LET f == format_text_response(out.text)
            IN [result |-> Tuple2(Str(f.main_response), Str(f.thoughts)),
                steps |-> <<"prompt", "call", "format">>, calls |-> <<"generate_content">>,
                full_prompt |-> full_prompt]

\* One invocation: the value returned, the pipeline steps taken in order and
\* the vendor calls attempted, in order.
process_text_request(mm, prompt, use_phi4, out) ==
    LET model == get_model(mm, use_phi4)
        full_prompt == create_prompt("document_analysis", prompt, None)
    IN IF model = "None"
       THEN \* None.generate_content raises AttributeError inside the try block
            [result |-> Str(<<"Error processing request with AI model:", "AttributeError">>),
             steps |-> <<"prompt">>, calls |-> <<>>, full_prompt |-> full_prompt]
       ELSE IF ~out.ok
       THEN [result |-> Str(<<"Error processing request with AI model:", out.err>>),
             steps |-> <<"prompt", "call">>, calls |-> <<"generate_content">>, full_prompt |-> full_prompt]
       ELSE LET f == format_text_response(out.text)
            IN [result |-> Tuple2(Str(f.main_response), Str(f.thoughts)),
                steps |-> <<"prompt", "call", "format">>, calls |-> <<"generate_content">>, full_prompt |-> full_prompt]

process_vision_request(mm, prompt, out) ==
    LET vision_model == get_vision_model(mm)
        contents == <<"text:">> \o prompt \o <<"inline_data:", "image/jpeg">>
    IN IF vision_model = "None"
       THEN [result |-> Tuple2(Str(<<"Error processing vision request:", "AttributeError">>), None),
             steps |-> <<"prompt">>, calls |-> <<>>, full_prompt |-> contents]
       ELSE IF ~out.ok
       THEN [result |-> Tuple2(Str(<<"Error processing vision request:", out.err>>), None),
             steps |-> <<"prompt", "call">>, calls |-> <<"generate_content">>, full_prompt |-> contents]
       ELSE LET f == format_text_response(out.text)
            IN [result |-> Tuple2(Str(f.main_response), Str(f.thoughts)),
                steps |-> <<"prompt", "call", "format">>, calls |-> <<"generate_content">>, full_prompt |-> contents]

\* ------------------------------------------------------------------ state
VARIABLES
    env,            \* os.environ of the server process
    logged_in,      \* st.session_state['logged_in']
    history,        \* st.session_state["history"]
    mode,           \* the mode selectbox of the sidebar
    manager,        \* agi_engine.model_manager of the latest script run
    configLoads,    \* number of AppConfig._load_config executions so far
    event,          \* the UI event that triggered the latest script run
    last,           \* what the latest script run did with its request
    answered,       \* the triples of the requests answered since the last logout
    requestsMade,   \* process_*_request invocations since the session began
    op,             \* the latest direct call of a vendor-wrapping operation
    storage,        \* MockBlobServiceClient.storage: container -> blob -> data
    clients,        \* the (container, blob) pairs a MockBlobClient was obtained for
    uploaded,       \* the pairs upload_blob was called for on this service
    fmt,            \* the latest ResponseFormatter call: its input and its output
    call,           \* the latest call of a single function: its inputs and its result
    job,            \* one wait_for_job_completion call: its position and what it polled
    stream          \* the webcam sessions of the server process and its working directory

uiVars == <<env, logged_in, history, mode, manager, configLoads, event, last, answered, requestsMade>>

opVars == <<op>>

blobVars == <<storage, clients, uploaded>>

fmtVars == <<fmt>>

callVars == <<call>>

jobVars == <<job>>

streamVars == <<stream>>

vars == <<uiVars, opVars, blobVars, fmtVars, callVars, jobVars, streamVars>>

Modes == {"Text Input", "Talk to DocuNexus", "Webcam Vision", "Screen Share (In-Development)"}

\* What the user typed in the text box of the selected mode.
Prompts == {<<>>, <<"q">>}

Idle == [kind |-> "none", question |-> <<>>, result |-> None, steps |-> <<>>, calls |-> <<>>,
         exc |-> "none", full_prompt |-> <<>>, use_phi4 |-> FALSE, model_ok |-> FALSE]

\* main.py:27-31 on the first run of a session
InitUI ==
    /\ env \in Environments
    /\ logged_in = FALSE
    /\ history = <<>>
    /\ mode = "Text Input"
    /\ manager = NoManager
    /\ configLoads = 0
    /\ event = "start"
    /\ last = Idle
    /\ answered = <<>>
    /\ requestsMade = 0

\* main.py:27, AGIEngine() -> ModelManager() -> AppConfig(): runs at the top
\* of every script run.  The result is the manager, or the raised ValueError.
AGIEngine_init(lo) ==
    LET cfg == AppConfig_init(FALSE, "", NoVault, env)
    IN IF IsRaise(cfg) THEN cfg ELSE ModelManager_init(cfg, lo)

\* The script run stops at main.py:27.
EngineCrash(ev) ==
    /\ event' = ev
    /\ configLoads' = configLoads + 1
    /\ last' = [Idle EXCEPT !.kind = "crash", !.exc = "ValueError"]
    /\ UNCHANGED <<env, logged_in, history, mode, manager, answered, requestsMade>>

\* `response, thoughts = <value>` (main.py:80, 98, 120): a 2-tuple unpacks; the
\* error string of process_text_request is longer than two characters, so
\* unpacking it raises ValueError.
Unpacks(v) == v.type = "tuple" /\ Len(v.items) = 2

\* main.py:77-88, 95-106, 115-128: the body of a pressed button of the main
\* content area, r being what the engine call does.
HandleRequest(ev, kind, prompt, use_phi4, r, out) ==
    LET ok == Unpacks(r.result)
        success == ok /\ r.steps = <<"prompt", "call", "format">>
    IN /\ event' = ev
       /\ last' = [kind |-> kind, question |-> prompt, result |-> r.result,
                   steps |-> IF ok THEN Append(r.steps, "render") ELSE r.steps,
                   calls |-> r.calls,
                   exc |-> IF ok THEN "none" ELSE "ValueError",
                   full_prompt |-> r.full_prompt, use_phi4 |-> use_phi4,
                   model_ok |-> (r.calls # <<>> /\ out.ok)]
       /\ requestsMade' = requestsMade + 1
       /\ answered' = IF success
                      THEN Append(answered, [question |-> prompt,
                                             answer |-> r.result.items[1].text,
                                             thoughts |-> r.result.items[2].text])
                      ELSE answered
       /\ UNCHANGED <<logged_in, history, mode>>

\* A script run that renders the page and handles no request.
NoRequest(ev, kind) ==
    /\ event' = ev
    /\ last' = [Idle EXCEPT !.kind = kind]
    /\ UNCHANGED <<logged_in, history, mode, answered, requestsMade>>

\* login_ui() of the sidebar (main.py:36): sets logged_in on a successful
\* authentication.
Login ==
    /\ configLoads < MaxLoads
    /\ UNCHANGED <<opVars, blobVars, fmtVars, callVars, jobVars, streamVars>>
    /\ \E lo \in LoadOutcomes, auth_ok \in BOOLEAN :
        LET m == AGIEngine_init(lo)
        IN IF IsRaise(m) THEN EngineCrash("Login")
           ELSE /\ manager' = m
                /\ configLoads' = configLoads + 1
                /\ event' = "Login"
                /\ logged_in' = (logged_in \/ auth_ok)
                /\ last' = Idle
                /\ UNCHANGED <<env, history, mode, answered, requestsMade>>

\* Logout that clears the history and leaves the login flag as it is.
LogoutKeepsLogin ==
    /\ configLoads + 1 < MaxLoads
    /\ UNCHANGED <<opVars, blobVars, fmtVars, callVars, jobVars, streamVars>>
    /\ \E lo \in LoadOutcomes, lo2 \in LoadOutcomes :
        LET m == AGIEngine_init(lo)
        IN IF IsRaise(m) THEN EngineCrash("Logout")
           ELSE /\ manager' = AGIEngine_init(lo2)
                /\ configLoads' = configLoads + 2
                /\ event' = "Logout"
                /\ history' = <<>>
                /\ last' = Idle
                /\ answered' = <<>>
                /\ UNCHANGED <<env, logged_in, mode, requestsMade>>

\* main.py:58-62: the Logout button; st.rerun() starts a second script run.
Logout ==
    /\ configLoads + 1 < MaxLoads
    /\ UNCHANGED <<opVars, blobVars, fmtVars, callVars, jobVars, streamVars>>
    /\ \E lo \in LoadOutcomes, lo2 \in LoadOutcomes :
        LET m == AGIEngine_init(lo)
        IN IF IsRaise(m) THEN EngineCrash("Logout")
           ELSE /\ manager' = AGIEngine_init(lo2)
                /\ configLoads' = configLoads + 2
                /\ event' = "Logout"
                /\ logged_in' = FALSE
                /\ history' = <<>>
                /\ last' = Idle
                /\ answered' = <<>>
                /\ UNCHANGED <<env, mode, requestsMade>>

\* main.py:66: the user picks a mode; the script reruns and only renders.
SelectMode ==
    /\ configLoads < MaxLoads
    /\ UNCHANGED <<opVars, blobVars, fmtVars, callVars, jobVars, streamVars>>
    /\ \E lo \in LoadOutcomes, m \in Modes :
        LET mg == AGIEngine_init(lo)
        IN IF IsRaise(mg) THEN EngineCrash("SelectMode")
           ELSE /\ manager' = mg
                /\ configLoads' = configLoads + 1
                /\ mode' = m
                /\ event' = "SelectMode"
                /\ last' = [Idle EXCEPT !.kind = IF logged_in THEN "page" ELSE "login_info"]
                /\ UNCHANGED <<env, logged_in, history, answered, requestsMade>>

\* The Submit button on a page that shows the modes to everyone.
SubmitTextWithoutLogin ==
    /\ configLoads < MaxLoads
    /\ UNCHANGED <<opVars, blobVars, fmtVars, callVars, jobVars, streamVars>>
    /\ \E lo \in LoadOutcomes, prompt \in Prompts, out \in CallOutcomes :
        LET mg == AGIEngine_init(lo)
        IN IF IsRaise(mg) THEN EngineCrash("Submit")
           ELSE /\ manager' = mg
                /\ configLoads' = configLoads + 1
                /\ UNCHANGED env
                /\ IF mode # "Text Input" THEN NoRequest("Submit", "page")
                   ELSE IF prompt = <<>> THEN NoRequest("Submit", "warning")
                   ELSE HandleRequest("Submit", "text", prompt, TRUE,
                                      process_text_request(mg, prompt, TRUE, out), out)

\* main.py:70-88: the Submit button of the Text Input mode.
SubmitText ==
    /\ configLoads < MaxLoads
    /\ UNCHANGED <<opVars, blobVars, fmtVars, callVars, jobVars, streamVars>>
    /\ \E lo \in LoadOutcomes, prompt \in Prompts, out \in CallOutcomes :
        LET mg == AGIEngine_init(lo)
        IN IF IsRaise(mg) THEN EngineCrash("Submit")
           ELSE /\ manager' = mg
                /\ configLoads' = configLoads + 1
                /\ UNCHANGED env
                /\ IF ~logged_in THEN NoRequest("Submit", "login_info")
                   ELSE IF mode # "Text Input" THEN NoRequest("Submit", "page")
                   ELSE IF prompt = <<>> THEN NoRequest("Submit", "warning")
                   ELSE HandleRequest("Submit", "text", prompt, TRUE,
                                      process_text_request(mg, prompt, TRUE, out), out)

\* main.py:90-106: the Speak Request button of the Talk mode.
SpeakRequest ==
    /\ configLoads < MaxLoads
    /\ UNCHANGED <<opVars, blobVars, fmtVars, callVars, jobVars, streamVars>>
    /\ \E lo \in LoadOutcomes, prompt \in Prompts, out \in CallOutcomes :
        LET mg == AGIEngine_init(lo)
        IN IF IsRaise(mg) THEN EngineCrash("Speak Request")
           ELSE /\ manager' = mg
                /\ configLoads' = configLoads + 1
                /\ UNCHANGED env
                /\ IF ~logged_in THEN NoRequest("Speak Request", "login_info")
                   ELSE IF mode # "Talk to DocuNexus" THEN NoRequest("Speak Request", "page")
                   ELSE IF prompt = <<>> THEN NoRequest("Speak Request", "warning")
                   ELSE HandleRequest("Speak Request", "text", prompt, FALSE,
                                      process_text_request(mg, prompt, FALSE, out), out)

\* main.py:109-128: the Analyze Webcam View button of the Webcam Vision mode.
AnalyzeWebcam ==
    /\ configLoads < MaxLoads
    /\ UNCHANGED <<opVars, blobVars, fmtVars, callVars, jobVars, streamVars>>
    /\ \E lo \in LoadOutcomes, prompt \in Prompts, out \in CallOutcomes :
        LET mg == AGIEngine_init(lo)
        IN IF IsRaise(mg) THEN EngineCrash("Analyze Webcam View")
           ELSE /\ manager' = mg
                /\ configLoads' = configLoads + 1
                /\ UNCHANGED env
                /\ IF ~logged_in THEN NoRequest("Analyze Webcam View", "login_info")
                   ELSE IF mode # "Webcam Vision" THEN NoRequest("Analyze Webcam View", "page")
                   ELSE IF prompt = <<>> THEN NoRequest("Analyze Webcam View", "warning")
                   ELSE HandleRequest("Analyze Webcam View", "vision", prompt, FALSE,
                                      process_vision_request(mg, prompt, out), out)

\* main.py:53-55: the two placeholder buttons of the sidebar; pressing one
\* reruns the script and nothing reads the button's value.
PlaceholderButton ==
    /\ configLoads < MaxLoads
    /\ UNCHANGED <<opVars, blobVars, fmtVars, callVars, jobVars, streamVars>>
    /\ \E lo \in LoadOutcomes, b \in {"Send to DocuSign", "Execute Snowflake Query"} :
        LET mg == AGIEngine_init(lo)
        IN IF IsRaise(mg) THEN EngineCrash(b)
           ELSE /\ manager' = mg
                /\ configLoads' = configLoads + 1
                /\ event' = b
                /\ last' = [Idle EXCEPT !.kind = IF logged_in THEN "page" ELSE "login_info"]
                /\ UNCHANGED <<env, logged_in, history, mode, answered, requestsMade>>

NextUI ==
    \/ Login
    \/ Logout
    \/ SelectMode
    \/ PlaceholderButton
    \/ SubmitText
    \/ SpeakRequest
    \/ AnalyzeWebcam

\* ------------------------------------------- vendor-wrapping operations
\* A vendor call: the API invoked and what tells two calls of it apart.
Call(api, arg) == [api |-> api, arg |-> arg]

\* A fault plan: the vendor calls that raise if they are attempted, and the
\* exception they raise.
FaultPlans(calls) == [failing : SUBSET calls, exc : ExceptionKinds, err : Errors]

\* The calls attempted out of a planned sequence: all of them, or those up to
\* and including the first that raises.
Attempted(planned, failing) ==
    IF \E i \in 1..Len(planned) : planned[i] \in failing
    THEN SubSeq(planned, 1, CHOOSE i \in 1..Len(planned) :
                                /\ planned[i] \in failing
                                /\ \A j \in 1..(i - 1) : planned[j] \notin failing)
    ELSE planned

AnyFailed(calls, failing) == \E i \in 1..Len(calls) : calls[i] \in failing

ChatCall == Call("get_chat_completions", "")

\* compare_documents that catches every exception, not only AzureError.
compare_documents_catches_all(f, text) ==
    IF ChatCall \in f.failing
    THEN [result |-> Str(<<"Error occurred:", f.err>>), calls |-> <<ChatCall>>]
    ELSE [result |-> Str(text), calls |-> <<ChatCall>>]

\* analyzer.py:68-100
compare_documents(f, text) ==
    IF ChatCall \in f.failing
    THEN IF f.exc = "AzureError"
         THEN [result |-> Str(<<"Error occurred:", f.err>>), calls |-> <<ChatCall>>]
         ELSE [result |-> Raise(f.exc, f.err), calls |-> <<ChatCall>>]
    ELSE [result |-> Str(text), calls |-> <<ChatCall>>]

\* analyzer.py:102-134
semantic_search(f, text) ==
    IF ChatCall \in f.failing
    THEN IF f.exc = "AzureError"
         THEN [result |-> Str(<<"Error occurred:", f.err>>), calls |-> <<ChatCall>>]
         ELSE [result |-> Raise(f.exc, f.err), calls |-> <<ChatCall>>]
    ELSE [result |-> Str(text), calls |-> <<ChatCall>>]

\* metadata_handler.py:70-103
analyze_metadata(f, text) ==
    IF ChatCall \in f.failing
    THEN IF f.exc = "AzureError"
         THEN [result |-> Str(<<"Error occurred:", f.err>>), calls |-> <<ChatCall>>]
         ELSE [result |-> Raise(f.exc, f.err), calls |-> <<ChatCall>>]
    ELSE [result |-> Str(text), calls |-> <<ChatCall>>]

\* summarizer.py:61, the marker summarize_document splits on
THOUGHT_PROCESS_MARKER == "***Thought Process:***"

\* summarizer.py:25-73
summarize_document(f, text, request_thoughts) ==
    IF ChatCall \in f.failing
    THEN [result |-> Tuple2(Str(<<"Error occurred:", f.err>>), None), calls |-> <<ChatCall>>]
    ELSE IF request_thoughts
    THEN LET parts == Split(text, THOUGHT_PROCESS_MARKER)
             thoughts_text == IF Len(parts) > 1 THEN Strip(parts[2])
                              ELSE <<"Thought process section was not explicitly provided.">>
         IN [result |-> Tuple2(Str(Strip(parts[1])), Str(thoughts_text)), calls |-> <<ChatCall>>]
    ELSE [result |-> Tuple2(Str(text), None), calls |-> <<ChatCall>>]

ErrorDict(message) == [type |-> "dict", status |-> "error", message |-> message]

\* The JSON body DocuSign answers a created envelope with.
EnvelopeSummary == [type |-> "dict", status |-> "sent", message |-> <<"envelopeId">>]

HttpStatuses == {200, 201, 400}

DocuSignCalls == <<Call("open", ""), Call("requests.post", ""), Call("response.json", "")>>

\* send_to_docusign that reads the file before its try block.
send_to_docusign_reads_file_unguarded(f, status_code) ==
    IF Call("open", "") \in f.failing
    THEN [result |-> Raise(f.exc, f.err), calls |-> <<Call("open", "")>>]
    ELSE IF Call("requests.post", "") \in f.failing
    THEN [result |-> ErrorDict(<<f.err>>), calls |-> SubSeq(DocuSignCalls, 1, 2)]
    ELSE IF status_code = 201
    THEN IF Call("response.json", "") \in f.failing
         THEN [result |-> ErrorDict(<<f.err>>), calls |-> DocuSignCalls]
         ELSE [result |-> EnvelopeSummary, calls |-> DocuSignCalls]
    ELSE [result |-> ErrorDict(<<"response.text">>), calls |-> SubSeq(DocuSignCalls, 1, 2)]

\* docusign_api.py:55-127
send_to_docusign(f, status_code) ==
    IF Call("open", "") \in f.failing
    THEN [result |-> ErrorDict(<<f.err>>), calls |-> <<Call("open", "")>>]
    ELSE IF Call("requests.post", "") \in f.failing
    THEN [result |-> ErrorDict(<<f.err>>), calls |-> SubSeq(DocuSignCalls, 1, 2)]
    ELSE IF status_code = 201
    THEN IF Call("response.json", "") \in f.failing
         THEN [result |-> ErrorDict(<<f.err>>), calls |-> DocuSignCalls]
         ELSE [result |-> EnvelopeSummary, calls |-> DocuSignCalls]
    ELSE [result |-> ErrorDict(<<"response.text">>), calls |-> SubSeq(DocuSignCalls, 1, 2)]

\* Most task commands handed to submit_batch_job.
MaxTasks == 2

TaskIds == <<"Task0", "Task1", "Task2", "Task3">>

BatchCalls(n) == <<Call("job.add", "")>> \o [i \in 1..n |-> Call("task.add", TaskIds[i])]

\* batch_processor.py:102-133
submit_batch_job(f, n) ==
    LET calls == Attempted(BatchCalls(n), f.failing)
    IN IF AnyFailed(calls, f.failing)
       THEN [result |-> Raise(f.exc, f.err), calls |-> calls]
       ELSE [result |-> Str(<<"job_id">>), calls |-> calls]

\* The files of the directory handed to upload_files_to_blob.
Directories == {<<>>, <<"f1">>, <<"f1", "f2">>}

UploadCalls(files) == <<Call("os.listdir", "")>> \o [i \in 1..Len(files) |-> Call("upload_blob", files[i])]

\* batch_processor.py:39-66
upload_files_to_blob(f, files) ==
    LET calls == Attempted(UploadCalls(files), f.failing)
    IN IF AnyFailed(calls, f.failing)
       THEN [result |-> Raise(f.exc, f.err), calls |-> calls]
       ELSE [result |-> [type |-> "list", items |-> files], calls |-> calls]

\* config.py:21-94, the attributes an AppConfig object has
AppConfigAttributes ==
    {"use_key_vault", "key_vault_client", "multimodal_api_key", "azure_api_key",
     "docusign_api_key", "snowflake_credentials", "multimodal_model_name",
     "azure_endpoint", "azure_model_name", "system_instruction"}

\* snowflake_api.py:74-79, the attributes read from the AppConfig object
SnowflakeAttributes ==
    {"snowflake_user", "snowflake_password", "snowflake_account", "snowflake_warehouse",
     "snowflake_database", "snowflake_schema"}

\* snowflake_api.py:52-87.  With the key vault the six secrets are fetched
\* (a failed fetch yields None) and the connector is called; without it an
\* AppConfig is constructed and six attributes are read from it.  A
\* ValueError of the constructor or an AttributeError of a read is caught
\* and None returned before the connector is called.
connect_to_snowflake(use_key_vault, f, e) ==
    IF use_key_vault
    THEN LET calls == <<Call("get_secret", "snowflake-*"), Call("connect", "")>>
         IN [connection |-> IF Call("connect", "") \in f.failing THEN "None" ELSE "Connection",
             calls |-> calls, loads |-> 0]
    ELSE LET config == AppConfig_init(FALSE, "", NoVault, e)
         IN IF IsRaise(config) \/ ~(SnowflakeAttributes \subseteq AppConfigAttributes)
            THEN [connection |-> "None", calls |-> <<>>, loads |-> 1]
            ELSE [connection |-> IF Call("connect", "") \in f.failing THEN "None" ELSE "Connection",
                  calls |-> <<Call("connect", "")>>, loads |-> 1]

QueryCalls == <<Call("cursor", ""), Call("execute", ""), Call("fetchall", "")>>

\* execute_query that closes the connection only after a successful fetch.
execute_query_without_finally(use_key_vault, f, e) ==
    LET c == connect_to_snowflake(use_key_vault, f, e)
        body == Attempted(QueryCalls, f.failing)
    IN IF c.connection = "None"
       THEN [result |-> None, calls |-> c.calls, loads |-> c.loads]
       ELSE IF AnyFailed(body, f.failing)
       THEN [result |-> None, calls |-> c.calls \o body, loads |-> c.loads]
       ELSE IF Call("close", "") \in f.failing
       THEN [result |-> Raise(f.exc, f.err), calls |-> c.calls \o body \o <<Call("close", "")>>,
             loads |-> c.loads]
       ELSE [result |-> [type |-> "list", items |-> <<"row">>],
             calls |-> c.calls \o body \o <<Call("close", "")>>, loads |-> c.loads]

\* snowflake_api.py:89-114
execute_query(use_key_vault, f, e) ==
    LET c == connect_to_snowflake(use_key_vault, f, e)
        body == Attempted(QueryCalls, f.failing)
        calls == c.calls \o body \o <<Call("close", "")>>
    IN IF c.connection = "None"
       THEN [result |-> None, calls |-> c.calls, loads |-> c.loads]
       ELSE IF Call("close", "") \in f.failing
       THEN \* the exception of connection.close() leaves the finally block
            [result |-> Raise(f.exc, f.err), calls |-> calls, loads |-> c.loads]
       ELSE IF AnyFailed(body, f.failing)
       THEN [result |-> None, calls |-> calls, loads |-> c.loads]
       ELSE [result |-> [type |-> "list", items |-> <<"row">>], calls |-> calls, loads |-> c.loads]

SpeechCalls == <<Call("speak_text_async", ""), Call("save_to_wav_file", ""), Call("upload_blob", "")>>

\* audio_handler.py:31-90: text_to_speech and its _upload_to_blob
text_to_speech(f, completed, upload_to_blob, has_blob_client, has_container) ==
    IF Call("speak_text_async", "") \in f.failing
    THEN [result |-> None, calls |-> SubSeq(SpeechCalls, 1, 1)]
    ELSE IF ~completed
    THEN [result |-> None, calls |-> SubSeq(SpeechCalls, 1, 1)]
    ELSE IF Call("save_to_wav_file", "") \in f.failing
    THEN [result |-> None, calls |-> SubSeq(SpeechCalls, 1, 2)]
    ELSE IF upload_to_blob /\ has_blob_client /\ has_container
    THEN IF Call("upload_blob", "") \in f.failing
         THEN [result |-> None, calls |-> SpeechCalls]
         ELSE [result |-> Str(<<"blob_client.url">>), calls |-> SpeechCalls]
    ELSE [result |-> Str(<<"temp_audio_output.wav">>), calls |-> SubSeq(SpeechCalls, 1, 2)]

NoOp == [name |-> "none", result |-> None, calls |-> <<>>, failing |-> {}, exc |-> "none",
         failed |-> FALSE]

InitOps == op = NoOp

\* The record of one direct call of operation `name` under fault plan f:
\* what it returned or raised, the vendor calls it attempted and which of
\* them raised.
Called(name, r, f) ==
    [name |-> name, result |-> r.result, calls |-> r.calls,
     failing |-> {c \in f.failing : \E i \in 1..Len(r.calls) : r.calls[i] = c},
     exc |-> IF AnyFailed(r.calls, f.failing) THEN f.exc ELSE "none",
     failed |-> AnyFailed(r.calls, f.failing)]

GenerateCall == Call("generate_content", "")

\* The fault plan that makes generate_content behave as `out` says.
PlanOf(out) ==
    [failing |-> IF out.ok THEN {} ELSE {GenerateCall}, exc |-> out.exc, err |-> out.err]

CallProcessTextRequest ==
    /\ \E lo \in LoadOutcomes, use_phi4 \in BOOLEAN, out \in CallOutcomes :
        LET mg == AGIEngine_init(lo)
            r == process_text_request(mg, <<"q">>, use_phi4, out)
        IN /\ ~IsRaise(mg)
           /\ op' = Called("process_text_request",
                           [result |-> r.result,
                            calls |-> [i \in 1..Len(r.calls) |-> Call(r.calls[i], "")]],
                           PlanOf(out))
    /\ UNCHANGED <<uiVars, blobVars, fmtVars, callVars, jobVars, streamVars>>

CallProcessVisionRequest ==
    /\ \E lo \in LoadOutcomes, out \in CallOutcomes :
        LET mg == AGIEngine_init(lo)
            r == process_vision_request(mg, <<"q">>, out)
        IN /\ ~IsRaise(mg)
           /\ op' = Called("process_vision_request",
                           [result |-> r.result,
                            calls |-> [i \in 1..Len(r.calls) |-> Call(r.calls[i], "")]],
                           PlanOf(out))
    /\ UNCHANGED <<uiVars, blobVars, fmtVars, callVars, jobVars, streamVars>>

CallCompareDocuments ==
    /\ \E f \in FaultPlans({ChatCall}), text \in ModelTexts :
        op' = Called("compare_documents", compare_documents(f, text), f)
    /\ UNCHANGED <<uiVars, blobVars, fmtVars, callVars, jobVars, streamVars>>

CallSemanticSearch ==
    /\ \E f \in FaultPlans({ChatCall}), text \in ModelTexts :
        op' = Called("semantic_search", semantic_search(f, text), f)
    /\ UNCHANGED <<uiVars, blobVars, fmtVars, callVars, jobVars, streamVars>>

CallAnalyzeMetadata ==
    /\ \E f \in FaultPlans({ChatCall}), text \in ModelTexts :
        op' = Called("analyze_metadata", analyze_metadata(f, text), f)
    /\ UNCHANGED <<uiVars, blobVars, fmtVars, callVars, jobVars, streamVars>>

CallSummarizeDocument ==
    /\ \E f \in FaultPlans({ChatCall}), text \in ModelTexts, request_thoughts \in BOOLEAN :
        op' = Called("summarize_document", summarize_document(f, text, request_thoughts), f)
    /\ UNCHANGED <<uiVars, blobVars, fmtVars, callVars, jobVars, streamVars>>

CallSendToDocusign ==
    /\ \E f \in FaultPlans({DocuSignCalls[i] : i \in 1..3}), status_code \in HttpStatuses :
        op' = Called("send_to_docusign", send_to_docusign(f, status_code), f)
    /\ UNCHANGED <<uiVars, blobVars, fmtVars, callVars, jobVars, streamVars>>

CallSubmitBatchJob ==
    /\ \E n \in 0..MaxTasks :
        \E f \in FaultPlans({BatchCalls(n)[i] : i \in 1..(n + 1)}) :
            op' = Called("submit_batch_job", submit_batch_job(f, n), f)
    /\ UNCHANGED <<uiVars, blobVars, fmtVars, callVars, jobVars, streamVars>>

CallUploadFilesToBlob ==
    /\ \E files \in Directories :
        \E f \in FaultPlans({UploadCalls(files)[i] : i \in 1..(Len(files) + 1)}) :
            op' = Called("upload_files_to_blob", upload_files_to_blob(f, files), f)
    /\ UNCHANGED <<uiVars, blobVars, fmtVars, callVars, jobVars, streamVars>>

\* execute_query, called on an AzureSnowflakeIntegration built with or
\* without the key vault; without it the call constructs an AppConfig.
CallExecuteQuery(use_key_vault) ==
    /\ \E f \in FaultPlans({Call("connect", ""), Call("close", "")} \cup {QueryCalls[i] : i \in 1..3}) :
        LET r == execute_query(use_key_vault, f, env)
        IN /\ configLoads + r.loads <= MaxLoads
           /\ configLoads' = configLoads + r.loads
           /\ op' = Called("execute_query", r, f)
    /\ UNCHANGED <<env, logged_in, history, mode, manager, event, last, answered, requestsMade>>
    /\ UNCHANGED <<blobVars, fmtVars, callVars, jobVars, streamVars>>

ExecuteQueryKeyVault == CallExecuteQuery(TRUE)

ExecuteQueryLocalConfig == CallExecuteQuery(FALSE)

CallTextToSpeech ==
    /\ \E f \in FaultPlans({SpeechCalls[i] : i \in 1..3}), completed \in BOOLEAN,
          upload_to_blob \in BOOLEAN, has_blob_client \in BOOLEAN, has_container \in BOOLEAN :
        op' = Called("text_to_speech",
                     text_to_speech(f, completed, upload_to_blob, has_blob_client, has_container), f)
    /\ UNCHANGED <<uiVars, blobVars, fmtVars, callVars, jobVars, streamVars>>

NextOps ==
    \/ CallProcessTextRequest
    \/ CallProcessVisionRequest
    \/ CallCompareDocuments
    \/ CallSemanticSearch
    \/ CallAnalyzeMetadata
    \/ CallSummarizeDocument
    \/ CallSendToDocusign
    \/ CallSubmitBatchJob
    \/ CallUploadFilesToBlob
    \/ ExecuteQueryKeyVault
    \/ ExecuteQueryLocalConfig
    \/ CallTextToSpeech

\* ------------------------------------------------ MockBlobServiceClient
Containers == {"c1", "c2"}

Blobs == {"b1", "b2"}

BlobData == {"d1", "d2"}

EmptyDict == [x \in {} |-> "d1"]

\* upload_blob that starts the container's dict afresh on every upload.
upload_blob_resets_container(st, container, blob, data) ==
    [c \in DOMAIN st \cup {container} |->
        IF c = container THEN [b \in {blob} |-> data] ELSE st[c]]

\* test_utils.py:39-44, MockBlobClient.upload_blob on the shared storage dict
upload_blob(st, container, blob, data) ==
    LET s1 == IF container \notin DOMAIN st
              THEN [c \in DOMAIN st \cup {container} |->
                        IF c = container THEN EmptyDict ELSE st[c]]
              ELSE st
    IN [s1 EXCEPT ![container] =
            [b \in DOMAIN s1[container] \cup {blob} |->
                IF b = blob THEN data ELSE s1[container][b]]]

\* test_utils.py:50-52, MockBlobClient.exists
exists(st, container, blob) == container \in DOMAIN st /\ blob \in DOMAIN st[container]

\* test_utils.py:24-25, a new MockBlobServiceClient
InitBlob ==
    /\ storage = EmptyDict
    /\ clients = {}
    /\ uploaded = {}

\* test_utils.py:27-29, get_blob_client: the client shares the service's dict
GetBlobClient ==
    /\ \E c \in Containers, b \in Blobs : clients' = clients \cup {<<c, b>>}
    /\ UNCHANGED <<storage, uploaded, uiVars, opVars, fmtVars, callVars, jobVars, streamVars>>

\* A client of the service uploads data.
UploadBlob ==
    /\ \E cl \in clients, d \in BlobData :
        /\ storage' = upload_blob(storage, cl[1], cl[2], d)
        /\ uploaded' = uploaded \cup {cl}
    /\ UNCHANGED <<clients, uiVars, opVars, fmtVars, callVars, jobVars, streamVars>>

\* test_utils.py:67-75, upload_mock_blob: a new service, one client, one upload
UploadMockBlob ==
    /\ \E c \in Containers, b \in Blobs, d \in BlobData :
        /\ storage' = upload_blob(EmptyDict, c, b, d)
        /\ clients' = {<<c, b>>}
        /\ uploaded' = {<<c, b>>}
    /\ UNCHANGED <<uiVars, opVars, fmtVars, callVars, jobVars, streamVars>>

NextBlob == GetBlobClient \/ UploadBlob \/ UploadMockBlob

\* ---------------------------------------------- formatter, called alone
ResponseTexts == SeqsUpTo(Tokens, MaxLen)

InitFmt == fmt = [called |-> FALSE, input |-> <<>>, main_response |-> <<>>, thoughts |-> <<>>]

FormatTextResponse ==
    /\ ~fmt.called
    /\ \E t \in ResponseTexts :
        LET f == format_text_response(t)
        IN fmt' = [called |-> TRUE, input |-> t,
                   main_response |-> f.main_response, thoughts |-> f.thoughts]
    /\ UNCHANGED <<uiVars, opVars, blobVars, callVars, jobVars, streamVars>>

NextFmt == FormatTextResponse

\* ------------------------------------------- single calls, with inputs
NoCall == [name |-> "none"]

InitCalls == call = NoCall

\* ---- document_parser.py
AzureExtensions == {"pdf", "jpeg", "jpg", "png"}

\* str.lower on the extensions uploaded files carry
Lower(x) == CASE x = "PDF" -> "pdf" [] x = "Txt" -> "txt" [] OTHER -> x

\* uploaded_file.name, as the parts between its dots
FileNames == {<<"doc", "PDF">>, <<"doc", "jpeg">>, <<"doc", "jpg">>, <<"doc", "png">>,
              <<"doc", "docx">>, <<"doc", "Txt">>, <<"doc", "v2", "txt">>,
              <<"doc", "csv">>, <<"doc">>}

\* the text a readable file holds
FileTexts == {<<>>, <<"a">>, <<"a", WS, "t">>}

\* document_parser.py:55-73: Form Recognizer result, "" when it raised
_parse_with_azure(readable, text) == IF readable THEN Str(text) ELSE Str(<<>>)

\* document_parser.py:75-86: python-docx paragraphs, "" when it raised
_parse_docx(readable, text) == IF readable THEN Str(text) ELSE Str(<<>>)

\* document_parser.py:88-96: decoded bytes, "" when decoding raised
_parse_txt(readable, text) == IF readable THEN Str(text) ELSE Str(<<>>)

\* document_parser.py:38
file_extension(name) == Lower(name[Len(name)])

\* document_parser.py:28-53.  The helpers catch their own exceptions, so the
\* except clause of parse_document is never entered from them.
parse_document(name, readable, text) ==
    LET ext == file_extension(name)
    IN IF ext \in AzureExtensions THEN _parse_with_azure(readable, text)
       ELSE IF ext = "docx" THEN _parse_docx(readable, text)
       ELSE IF ext = "txt" THEN _parse_txt(readable, text)
       ELSE None

CallParseDocument ==
    /\ call = NoCall
    /\ \E name \in FileNames, readable \in BOOLEAN, text \in FileTexts :
        call' = [name |-> "parse_document", file |-> name, readable |-> readable,
                 text |-> text, result |-> parse_document(name, readable, text)]
    /\ UNCHANGED <<uiVars, opVars, blobVars, fmtVars, jobVars, streamVars>>

\* ---- prompt_templates.py, called on every kind of context
TaskTypes == {"document_analysis", "media_summarization", "webcam_vision_analysis", "general"}

UserPrompts == {<<"q">>, <<"q", WS, "a">>}

\* None, a single string, or a list of document strings
Contexts == {None, Str(<<"a">>), Str(<<"a", "t">>), List(<<>>), List(<<<<"a", "t">>>>),
             List(<<<<"a">>, <<"t", NL, "a">>>>)}

CallCreatePrompt ==
    /\ call = NoCall
    /\ \E task_type \in TaskTypes, user_prompt \in UserPrompts, context \in Contexts :
        call' = [name |-> "create_prompt", task_type |-> task_type,
                 user_prompt |-> user_prompt, context |-> context,
                 result |-> create_prompt(task_type, user_prompt, context)]
    /\ UNCHANGED <<uiVars, opVars, blobVars, fmtVars, jobVars, streamVars>>

\* ---- response_formatter.py: format_data_response
MaxJson == 5

\* JSON text as tokens: "1" and "null" are scalars, "{}" stands for an object
JsonTokens == {"[", "]", ",", "1", "null", "{}"}

JsonElements == {"1", "null", "{}"}

\* json.loads on a token text: a scalar, an object, or a flat list of them;
\* anything else is a JSONDecodeError
JsonLoads(s) ==
    IF Len(s) = 1 /\ s[1] \in JsonElements
    THEN [ok |-> TRUE, is_list |-> FALSE, data |-> <<s[1]>>]
    ELSE IF /\ Len(s) >= 2
            /\ s[1] = "["
            /\ s[Len(s)] = "]"
            /\ \/ Len(s) = 2
               \/ /\ Len(s) % 2 = 1
                  /\ \A i \in 2..(Len(s) - 1) :
                        IF i % 2 = 0 THEN s[i] \in JsonElements ELSE s[i] = ","
    THEN [ok |-> TRUE, is_list |-> TRUE, data |-> [i \in 1..((Len(s) - 1) \div 2) |-> s[2 * i]]]
    ELSE [ok |-> FALSE, is_list |-> FALSE, data |-> <<>>]

\* pd.DataFrame(data) on a list: one row per element; when the first element
\* is a dict every element is read as a dict, and one that is none raises
\* AttributeError (no .keys()).
DataFrame(data) ==
    IF data # <<>> /\ data[1] = "{}" /\ \E i \in 1..Len(data) : data[i] # "{}"
    THEN Raise("AttributeError", "keys")
    ELSE [type |-> "DataFrame", rows |-> Len(data)]

\* response_formatter.py:42-61.  Only json.JSONDecodeError is caught; the
\* span attributes are set through tracer.current_span, an attribute the
\* tracer object may not have (has_current_span).
format_data_response(response_body, has_current_span) ==
    LET parsed == JsonLoads(response_body)
        NoSpan == Raise("AttributeError", "current_span")
    IN IF ~parsed.ok
       THEN IF has_current_span THEN Str(response_body) ELSE NoSpan
       ELSE IF parsed.is_list
       THEN LET dataframe == DataFrame(parsed.data)
            IN IF IsRaise(dataframe) THEN dataframe
               ELSE IF has_current_span THEN dataframe ELSE NoSpan
       ELSE IF has_current_span THEN Str(response_body) ELSE NoSpan

ResponseBodies == SeqsUpTo(JsonTokens, MaxJson)

CallFormatDataResponse ==
    /\ call = NoCall
    /\ \E response_body \in ResponseBodies, has_current_span \in BOOLEAN :
        call' = [name |-> "format_data_response", response_body |-> response_body,
                 has_current_span |-> has_current_span,
                 result |-> format_data_response(response_body, has_current_span)]
    /\ UNCHANGED <<uiVars, opVars, blobVars, fmtVars, jobVars, streamVars>>

\* ---- webcam_integration.py and screenshare_integration.py: transform
\* the two processors and the temporary file each writes
Processors == {"AzureWebcamFeedProcessor", "AzureScreenShareProcessor"}

temp_file_path(processor) ==
    IF processor = "AzureWebcamFeedProcessor" THEN "temp_frame.jpg" ELSE "temp_screen_frame.jpg"

\* what transform is handed: an av.VideoFrame, or the PIL image of
\* test_real_time_comm.py, which has no to_ndarray
Frames == [type : {"av.VideoFrame", "PIL.Image"}, pixels : {"p1", "p2"}, annotated : {FALSE}]

\* the Computer Vision client the processor was built with; the test passes None
CvClients == {"ComputerVisionClient", "None"}

\* analyze_image_in_stream results: whether captions and tags came back
Analyses == [captions : BOOLEAN, tags : BOOLEAN]

TransformCalls == {Call("to_ndarray", ""), Call("imwrite", ""), Call("open", ""),
                   Call("analyze_image_in_stream", ""), Call("putText", ""),
                   Call("from_ndarray", "")}

\* webcam_integration.py:6-14, screenshare_integration.py:6-14: the names
\* the module imports
ModuleImports ==
    {"st", "webrtc_streamer", "VideoTransformerBase", "RTCConfiguration", "WebRtcMode",
     "av", "cv2", "np", "ComputerVisionClient", "VisualFeatureTypes", "AzureKeyCredential",
     "logger"}

\* webcam_integration.py:36-82, screenshare_integration.py:36-82.
\* to_ndarray and imwrite run before the try block.  Inside it, a None
\* client, a raising call, or tags (ImageTag objects handed to str.join)
\* end in the except clause, which returns the frame it was given.  The
\* finally block calls os.remove, but os is not imported: the NameError is
\* caught and the temporary file stays.
transform(processor, client, frame, f, analysis) ==
    LET path == temp_file_path(processor)
        fails(api) == Call(api, "") \in f.failing
        \* lines 77-82: os.remove(path), reached only if the name os is bound
        left == IF "os" \in ModuleImports THEN {} ELSE {path}
    IN IF frame.type # "av.VideoFrame" \/ fails("to_ndarray")
       THEN [result |-> Raise(IF frame.type # "av.VideoFrame" THEN "AttributeError" ELSE f.exc,
                              "to_ndarray"),
             analysed |-> FALSE, files |-> {}]
       ELSE IF fails("imwrite")
       THEN [result |-> Raise(f.exc, "imwrite"), analysed |-> FALSE, files |-> {}]
       ELSE IF \/ fails("open")
               \/ client = "None"
               \/ fails("analyze_image_in_stream")
               \/ analysis.tags
               \/ fails("putText")
               \/ fails("from_ndarray")
       THEN [result |-> frame, analysed |-> FALSE, files |-> left]
       ELSE [result |-> [frame EXCEPT !.annotated = TRUE], analysed |-> TRUE, files |-> left]

CallTransform ==
    /\ call = NoCall
    /\ \E processor \in Processors, client \in CvClients, frame \in Frames,
          f \in FaultPlans(TransformCalls), analysis \in Analyses :
        LET r == transform(processor, client, frame, f, analysis)
        IN call' = [name |-> "transform", processor |-> processor, client |-> client,
                    frame |-> frame, failing |-> f.failing, analysis |-> analysis,
                    result |-> r.result, analysed |-> r.analysed, files |-> r.files]
    /\ UNCHANGED <<uiVars, opVars, blobVars, fmtVars, jobVars, streamVars>>

\* ---- metadata_handler.py: extract_metadata
\* the keys of the returned dict
MetadataKeys == {"file_name", "file_type", "size", "author", "creation_date", "modification_date"}

\* metadata_handler.py:56-61, the key each is read from
SourceKey(k) == IF k = "size" THEN "file_size" ELSE k

\* what poller.result() carries: no metadata attribute at all, or a metadata
\* dict holding some of the fields
AnalyzeResults ==
    {[has_metadata |-> FALSE, fields |-> {}]}
    \cup [has_metadata : {TRUE}, fields : SUBSET {"file_name", "file_size", "author"}]

ExtractCalls == <<Call("begin_analyze_document", ""), Call("poller.result", "")>>

\* metadata_handler.py:36-68.  Only AzureError is caught: any other
\* exception of the vendor calls, and the AttributeError of a result without
\* a metadata attribute, leave the call.
extract_metadata(f, result) ==
    LET calls == Attempted(ExtractCalls, f.failing)
    IN IF AnyFailed(calls, f.failing)
       THEN IF f.exc = "AzureError"
            THEN [type |-> "dict", items |-> [k \in {"error"} |-> f.err]]
            ELSE Raise(f.exc, f.err)
       ELSE IF ~result.has_metadata
       THEN Raise("AttributeError", "metadata")
       ELSE [type |-> "dict",
             items |-> [k \in MetadataKeys |->
                           IF SourceKey(k) \in result.fields THEN SourceKey(k) ELSE "Unknown"]]

CallExtractMetadata ==
    /\ call = NoCall
    /\ \E f \in FaultPlans({ExtractCalls[i] : i \in 1..2}), result \in AnalyzeResults :
        call' = [name |-> "extract_metadata", failing |-> f.failing, exc |-> f.exc,
                 analysis |-> result, result |-> extract_metadata(f, result)]
    /\ UNCHANGED <<uiVars, opVars, blobVars, fmtVars, jobVars, streamVars>>

\* ---- audio_handler.py: text_to_speech with its arguments on record
SpeakText ==
    /\ call = NoCall
    /\ \E f \in FaultPlans({SpeechCalls[i] : i \in 1..3}), completed \in BOOLEAN,
          upload_to_blob \in BOOLEAN, has_blob_client \in BOOLEAN, has_container \in BOOLEAN :
        LET r == text_to_speech(f, completed, upload_to_blob, has_blob_client, has_container)
        IN call' = [name |-> "text_to_speech", failing |-> f.failing, completed |-> completed,
                    upload_to_blob |-> upload_to_blob, has_blob_client |-> has_blob_client,
                    has_container |-> has_container, result |-> r.result, calls |-> r.calls]
    /\ UNCHANGED <<uiVars, opVars, blobVars, fmtVars, jobVars, streamVars>>

\* ---- snowflake_api.py: connect_to_snowflake alone
ConnectToSnowflake ==
    /\ call = NoCall
    /\ \E use_key_vault \in BOOLEAN, f \in FaultPlans({Call("connect", "")}) :
        LET r == connect_to_snowflake(use_key_vault, f, env)
        IN /\ configLoads + r.loads <= MaxLoads
           /\ configLoads' = configLoads + r.loads
           /\ call' = [name |-> "connect_to_snowflake", use_key_vault |-> use_key_vault,
                       failing |-> f.failing, connection |-> r.connection, calls |-> r.calls]
    /\ UNCHANGED <<env, logged_in, history, mode, manager, event, last, answered, requestsMade>>
    /\ UNCHANGED <<opVars, blobVars, fmtVars, jobVars, streamVars>>

\* ---- config.py: AppConfig(use_key_vault, key_vault_name)
KeyVaultNames == {"", "vault1"}

ConstructAppConfig ==
    /\ call = NoCall
    /\ \E use_key_vault \in BOOLEAN, key_vault_name \in KeyVaultNames, vault \in Vaults :
        LET r == AppConfig_init(use_key_vault, key_vault_name, vault, env)
            key_vault_client == use_key_vault /\ key_vault_name # ""
            loads == IF key_vault_client /\ vault.init_raises THEN 0 ELSE 1
        IN /\ configLoads + loads <= MaxLoads
           /\ configLoads' = configLoads + loads
           /\ call' = [name |-> "AppConfig", key_vault_client |-> key_vault_client,
                       vault |-> vault, result |-> r,
                       secrets |-> [n \in SecretNames |->
                                       _get_secret(key_vault_client, vault, env, n)]]
    /\ UNCHANGED <<env, logged_in, history, mode, manager, event, last, answered, requestsMade>>
    /\ UNCHANGED <<opVars, blobVars, fmtVars, jobVars, streamVars>>

\* ---- docusign_api.py: send_to_docusign with the HTTP status on record
SendDocument ==
    /\ call = NoCall
    /\ \E f \in FaultPlans({DocuSignCalls[i] : i \in 1..3}), status_code \in HttpStatuses :
        LET r == send_to_docusign(f, status_code)
        IN call' = [name |-> "send_to_docusign", failing |-> f.failing,
                    status_code |-> status_code, result |-> r.result, calls |-> r.calls]
    /\ UNCHANGED <<uiVars, opVars, blobVars, fmtVars, jobVars, streamVars>>

NextCalls ==
    \/ CallParseDocument
    \/ CallCreatePrompt
    \/ CallFormatDataResponse
    \/ CallTransform
    \/ CallExtractMetadata
    \/ SpeakText
    \/ ConnectToSnowflake
    \/ ConstructAppConfig
    \/ SendDocument

\* ---- media_converter.py: wait_for_job_completion
MaxPolls == 4

\* the states Azure Media Services reports for a job
JobStates == {"Queued", "Scheduled", "Processing", "Canceling", "Finished", "Error", "Canceled"}

\* media_converter.py:169
TerminalStates == {"Finished", "Error", "Canceled"}

\* how the service moves a job on between two polls
JobSuccessors(st) ==
    CASE st = "Queued" -> {"Scheduled", "Canceling"}
      [] st = "Scheduled" -> {"Processing", "Canceling"}
      [] st = "Processing" -> {"Finished", "Error", "Canceling"}
      [] st = "Canceling" -> {"Canceled"}
      [] OTHER -> {}

InitJob == job = [pc |-> "idle", service |-> "Queued", state |-> "none", polled |-> <<>>]

\* media_converter.py:161-162, the call enters its loop
StartWait ==
    /\ job.pc = "idle"
    /\ job' = [job EXCEPT !.pc = "get"]
    /\ UNCHANGED <<uiVars, opVars, blobVars, fmtVars, callVars, streamVars>>

\* media_converter.py:163-168, jobs.get answers with the job's current state;
\* polled keeps the latest MaxPolls answers
JobsGet ==
    /\ job.pc = "get"
    /\ job' = [job EXCEPT !.pc = "check", !.state = job.service,
                          !.polled = IF Len(job.polled) < MaxPolls
                                     THEN Append(job.polled, job.service)
                                     ELSE Append(Tail(job.polled), job.service)]
    /\ UNCHANGED <<uiVars, opVars, blobVars, fmtVars, callVars, streamVars>>

\* media_converter.py:163-168, jobs.get raises: nothing catches it
JobsGetRaises ==
    /\ job.pc = "get"
    /\ job' = [job EXCEPT !.pc = "raised"]
    /\ UNCHANGED <<uiVars, opVars, blobVars, fmtVars, callVars, streamVars>>

\* wait_for_job_completion that also leaves the loop on "Canceling".
CheckStateBreaksOnCanceling ==
    /\ job.pc = "check"
    /\ job' = [job EXCEPT !.pc = IF job.state \in TerminalStates \cup {"Canceling"}
                                 THEN "returned" ELSE "sleep"]
    /\ UNCHANGED <<uiVars, opVars, blobVars, fmtVars, callVars, streamVars>>

\* media_converter.py:169-171, break on a terminal state
CheckState ==
    /\ job.pc = "check"
    /\ job' = [job EXCEPT !.pc = IF job.state \in TerminalStates THEN "returned" ELSE "sleep"]
    /\ UNCHANGED <<uiVars, opVars, blobVars, fmtVars, callVars, streamVars>>

\* media_converter.py:172, time.sleep(10) and back to the top of the loop
Sleep ==
    /\ job.pc = "sleep"
    /\ job' = [job EXCEPT !.pc = "get"]
    /\ UNCHANGED <<uiVars, opVars, blobVars, fmtVars, callVars, streamVars>>

\* the service works on the job while the caller waits
ServiceAdvance ==
    /\ \E st \in JobSuccessors(job.service) : job' = [job EXCEPT !.service = st]
    /\ UNCHANGED <<uiVars, opVars, blobVars, fmtVars, callVars, streamVars>>

NextJob ==
    \/ StartWait
    \/ JobsGet
    \/ JobsGetRaises
    \/ CheckState
    \/ Sleep
    \/ ServiceAdvance

\* ------------------------------------------------------- webcam sessions
\* webcam_integration.py:97-104: webrtc_streamer builds one
\* AzureWebcamFeedProcessor per session and calls its transform on the
\* session's own thread; the sessions of a server share its working directory.
Sessions == {"s1", "s2"}

Pixels == {"p1", "p2"}

NoFile == "absent"

NoImage == "none"

WebcamPath == temp_file_path("AzureWebcamFeedProcessor")

NoFrame == [pixels |-> NoImage, described |-> NoImage]

IdleWorker == [pc |-> "idle", img |-> NoImage, sent |-> NoImage, result |-> NoFrame]

InitStream ==
    stream = [disk |-> [p \in {WebcamPath} |-> NoFile], worker |-> [s \in Sessions |-> IdleWorker]]

\* webcam_integration.py:46: img = frame.to_ndarray(format="rgb24"), on the
\* frame the session's camera delivered
ToNdarray(s) ==
    /\ stream.worker[s].pc \in {"idle", "returned"}
    /\ \E px \in Pixels :
          stream' = [stream EXCEPT !.worker[s] = [IdleWorker EXCEPT !.pc = "imwrite", !.img = px]]
    /\ UNCHANGED <<uiVars, opVars, blobVars, fmtVars, callVars, jobVars>>

\* webcam_integration.py:49-50: cv2.imwrite("temp_frame.jpg", img)
Imwrite(s) ==
    /\ stream.worker[s].pc = "imwrite"
    /\ stream' = [stream EXCEPT !.disk[WebcamPath] = stream.worker[s].img,
                                !.worker[s].pc = "open"]
    /\ UNCHANGED <<uiVars, opVars, blobVars, fmtVars, callVars, jobVars>>

\* webcam_integration.py:54-58: open(temp_file_path, "rb") and
\* analyze_image_in_stream on what the file holds now; 73-75: a missing file
\* raises, and the original frame is the result
AnalyzeImageInStream(s) ==
    /\ stream.worker[s].pc = "open"
    /\ stream' = IF stream.disk[WebcamPath] = NoFile
                 THEN [stream EXCEPT !.worker[s].pc = "finally",
                                     !.worker[s].result = [pixels |-> stream.worker[s].img,
                                                           described |-> NoImage]]
                 ELSE [stream EXCEPT !.worker[s].pc = "annotate",
                                     !.worker[s].sent = stream.disk[WebcamPath]]
    /\ UNCHANGED <<uiVars, opVars, blobVars, fmtVars, callVars, jobVars>>

\* webcam_integration.py:54-58, 73-75: the service receives the file's image
\* and fails; the original frame is the result
AnalyzeRaises(s) ==
    /\ stream.worker[s].pc = "open"
    /\ stream.disk[WebcamPath] # NoFile
    /\ stream' = [stream EXCEPT !.worker[s].pc = "finally",
                                !.worker[s].sent = stream.disk[WebcamPath],
                                !.worker[s].result = [pixels |-> stream.worker[s].img,
                                                      described |-> NoImage]]
    /\ UNCHANGED <<uiVars, opVars, blobVars, fmtVars, callVars, jobVars>>

\* webcam_integration.py:61-71: the description of the analysed image is
\* drawn on a copy of img
Annotate(s) ==
    /\ stream.worker[s].pc = "annotate"
    /\ stream' = [stream EXCEPT !.worker[s].pc = "finally",
                                !.worker[s].result = [pixels |-> stream.worker[s].img,
                                                      described |-> stream.worker[s].sent]]
    /\ UNCHANGED <<uiVars, opVars, blobVars, fmtVars, callVars, jobVars>>

\* webcam_integration.py:77-82: os.remove(temp_file_path) under its own
\* try/except, then the return
Cleanup(s) ==
    /\ stream.worker[s].pc = "finally"
    /\ stream' = [stream EXCEPT !.worker[s].pc = "returned",
                                !.disk[WebcamPath] = IF "os" \in ModuleImports THEN NoFile ELSE @]
    /\ UNCHANGED <<uiVars, opVars, blobVars, fmtVars, callVars, jobVars>>

NextStream ==
    \E s \in Sessions :
        \/ ToNdarray(s)
        \/ Imwrite(s)
        \/ AnalyzeImageInStream(s)
        \/ AnalyzeRaises(s)
        \/ Annotate(s)
        \/ Cleanup(s)


\* ------------------------------------------------------- specifications
Init == InitUI /\ InitOps /\ InitBlob /\ InitFmt /\ InitCalls /\ InitJob /\ InitStream

\* The Streamlit session.
Spec == Init /\ [][NextUI]_vars

\* The session together with the Snowflake integration on local configuration.
NextConfig == NextUI \/ ExecuteQueryLocalConfig

SpecConfig == Init /\ [][NextConfig]_vars

\* An environment with both required API keys set.
InitKeysSet == Init /\ env = [Phi4MM_API_KEY |-> "key", AZURE_AI_API_KEY |-> "key"]

\* The vendor-wrapping operations, called directly.
SpecOps == InitKeysSet /\ [][NextOps]_vars

\* The blob-storage mock of the tests.
SpecBlob == InitKeysSet /\ [][NextBlob]_vars

\* The response formatter on every short model output.
SpecFmt == InitKeysSet /\ [][NextFmt]_vars

\* Single functions: one call in a fresh process, on every small input.
SpecCalls == Init /\ [][NextCalls]_vars

\* One wait_for_job_completion call.
SpecJob == InitKeysSet /\ [][NextJob]_vars

\* The steps of the polling loop itself.
LoopStep == StartWait \/ JobsGet \/ JobsGetRaises \/ CheckState \/ Sleep

\* One wait_for_job_completion call whose loop is scheduled fairly; nothing
\* obliges the service to move the job on.
SpecJobFair == SpecJob /\ WF_vars(LoopStep)

\* Two webcam sessions of one server, their transform calls interleaved.
SpecStream == InitKeysSet /\ [][NextStream]_vars



\* ------------------------------------------------------- session claims
Position(steps, x) == CHOOSE i \in 1..Len(steps) : steps[i] = x

Occurs(steps, x) == \E i \in 1..Len(steps) : steps[i] = x

Once(steps, x) == Cardinality({i \in 1..Len(steps) : steps[i] = x}) <= 1

Before(steps, x, y) == Occurs(steps, x) /\ Occurs(steps, y) => Position(steps, x) < Position(steps, y)

\* C1: after the Logout action the session has logged_in = False and an empty
\* history, whatever number of requests were made before it.
LogoutClearsSession == event = "Logout" => (logged_in = FALSE /\ history = <<>>)

\* C1 witness: a logout that follows a login and two requests.
LogoutAfterRequests == event = "Logout" /\ requestsMade >= 2 /\ last.kind = "none"

\* C2: history holds exactly one question/answer/thoughts triple per request
\* answered since the last logout, in the order the requests were made.
HistoryHoldsAnsweredTriples == history = answered

\* C4: process_text_request and process_vision_request return a pair whose
\* first component is a string in every outcome, so the caller's unpacking
\* `response, thoughts = ...` succeeds.
ResultIsPairWithStringResponse ==
    last.kind \in {"text", "vision"} =>
        /\ Unpacks(last.result)
        /\ IsStr(last.result.items[1])
        /\ last.exc = "none"

\* C5 (as stated): the configuration is not loaded a second time.
ConfigLoadedOnce == configLoads <= 1

\* C5 (amended): every script run loads the configuration again, no step
\* mutates a loaded configuration, and every load yields the values of the
\* startup load.
ConfigReloadedNeverMutated ==
    [][/\ env' = env
       /\ configLoads' >= configLoads
       /\ (configLoads' = configLoads => manager'.config = manager.config)
       /\ (manager.config.loaded => manager'.config = manager.config)]_vars

\* C5 witness: a configuration in use after it was loaded several times.
ConfigLoadedAgain == configLoads >= 3 /\ manager.config.loaded /\ requestsMade >= 1

GetModelNeverNone ==
    manager.config.loaded =>
        (get_model(manager, FALSE) # "None" /\ get_model(manager, TRUE) # "None")

\* ----------------------------------------------------- operation claims
UniformOps ==
    {"process_text_request", "process_vision_request", "compare_documents", "semantic_search",
     "analyze_metadata", "summarize_document", "send_to_docusign", "submit_batch_job",
     "upload_files_to_blob", "execute_query"}

ErrorOccurred(v) == IsStr(v) /\ StartsWith(v.text, <<"Error occurred:">>)

NoRetryOps ==
    {"process_text_request", "process_vision_request", "execute_query", "send_to_docusign",
     "text_to_speech"}

\* C8: within one invocation the vendor call is attempted at most once; a
\* failed vendor call is never attempted again.
NoRetry ==
    op.name \in NoRetryOps =>
        /\ \A i, j \in 1..Len(op.calls) : op.calls[i] = op.calls[j] => i = j
        /\ \A i \in 1..Len(op.calls) :
              (op.calls[i] \in op.failing /\ i < Len(op.calls)) =>
                    (op.name = "execute_query" /\ op.calls[Len(op.calls)] = Call("close", "")
                        /\ i = Len(op.calls) - 1)

\* C8 witness: a text request whose one model call raised.
TextRequestFailedOnce ==
    op.name = "process_text_request" /\ op.failed /\ op.calls = <<GenerateCall>>

\* ------------------------------------------------------ blob-mock claim
\* C9: exists() is true for every pair upload_blob has been called for on the
\* service, whatever was uploaded since, and false for every other pair.
BlobExistsIffUploaded ==
    \A c \in Containers, b \in Blobs : exists(storage, c, b) <=> <<c, b>> \in uploaded

\* C9 witness: two blobs of one container uploaded, and a client for a pair
\* that never was.
TwoUploadedOneNot ==
    /\ \E c \in Containers : {<<c, b>> : b \in Blobs} \subseteq uploaded
    /\ clients \ uploaded # {}

\* ------------------------------------------------------ formatter claim
\* C6: when a response places its reasoning after the marker the prompt
\* template asked for, format_text_response returns that reasoning as
\* thoughts (non-empty) and a main response without the marker and without
\* the reasoning.
ThoughtsFollowRequestedMarker ==
    LET M == RequestedMarker(create_prompt("document_analysis", <<"q">>, None))
        t == fmt.input
        Markers == {THOUGHTS_MARKER, AZURE_THOUGHTS_MARKER}
    IN (fmt.called /\ \E i \in 1..Len(t) : t[i] = M) =>
        LET i == CHOOSE k \in 1..Len(t) : t[k] = M /\ \A j \in 1..(k - 1) : t[j] # M
            answer == SubSeq(t, 1, i - 1)
            reasoning == SubSeq(t, i + 1, Len(t))
        IN (/\ Strip(answer) # <<>>
            /\ Strip(reasoning) # <<>>
            /\ \A k \in 1..Len(t) : k # i => t[k] \notin Markers)
           => /\ fmt.thoughts = Strip(reasoning)
              /\ ~Contains(fmt.main_response, <<M>>)
              /\ ~Contains(fmt.main_response, Strip(reasoning))

\* ---- C11
SupportedExtensions == AzureExtensions \cup {"docx", "txt"}

\* C11: parse_document returns None whenever parsing a file with a supported
\* extension fails, and None for every unsupported extension.
ParseFailureIsNone ==
    (/\ call.name = "parse_document"
     /\ \/ ~call.readable
        \/ file_extension(call.file) \notin SupportedExtensions)
    => call.result = None

\* ---- C20
\* C20: when wait_for_job_completion has returned normally, the last state it
\* polled is "Finished", "Error" or "Canceled", and every non-terminal state
\* it observed was followed by another poll; while it sleeps between polls
\* the state it last saw is not terminal.
ReturnsOnlyOnTerminalState ==
    /\ job.pc = "returned" =>
        /\ job.polled # <<>>
        /\ job.polled[Len(job.polled)] \in TerminalStates
        /\ job.state = job.polled[Len(job.polled)]
        /\ \A i \in 1..Len(job.polled) :
            job.polled[i] \notin TerminalStates => i < Len(job.polled)
    /\ job.pc = "sleep" => job.state \notin TerminalStates

\* the call returned after polling a cancelling job again
ReturnedAfterCanceling ==
    /\ job.pc = "returned"
    /\ Len(job.polled) >= 3
    /\ job.polled[Len(job.polled) - 1] = "Canceling"

\* ---- C12
\* the documents a context supplies: the string itself, or the list's elements
Documents(context) ==
    CASE context.type = "None" -> {}
      [] context.type = "str" -> {context.text}
      [] context.type = "list" -> {context.items[i] : i \in 1..Len(context.items)}

\* C12: for every task type and every context (None, a string, a list of
\* strings) the prompt returned by create_prompt contains the user prompt and
\* each supplied context document as a contiguous substring.
PromptContainsCallerText ==
    call.name = "create_prompt" =>
        /\ Contains(call.result, call.user_prompt)
        /\ \A d \in Documents(call.context) : Contains(call.result, d)

\* ---- C13
\* C13: for every string input format_data_response returns a table with one
\* row per element when the input parses as a JSON list, and the input string
\* unchanged when it is valid JSON that is not a list or is not valid JSON.
DataResponseTableOrRaw ==
    call.name = "format_data_response" =>
        LET parsed == JsonLoads(call.response_body)
        IN IF parsed.ok /\ parsed.is_list
           THEN call.result = [type |-> "DataFrame", rows |-> Len(parsed.data)]
           ELSE call.result = Str(call.response_body)

\* ---- C14
\* C14: for every input frame transform returns a frame and does not raise,
\* and when the vision analysis did not succeed the frame returned is the
\* input frame unchanged.
TransformAlwaysReturnsFrame ==
    call.name = "transform" =>
        /\ ~IsRaise(call.result)
        /\ call.result # None
        /\ ~call.analysed => call.result = call.frame

\* ---- C15
\* C15: in every outcome extract_metadata does not raise and returns a dict:
\* the six metadata keys when the vendor analysis succeeded (also when it
\* lacks metadata fields), the single key "error" when it failed.
ExtractMetadataReturnsDict ==
    call.name = "extract_metadata" =>
        /\ call.result.type = "dict"
        /\ IF call.failing = {} THEN DOMAIN call.result.items = MetadataKeys
           ELSE DOMAIN call.result.items = {"error"}

\* ---- C16
\* synthesis succeeded: the audio was synthesized and saved to the local file
SynthesisSucceeded ==
    /\ call.completed
    /\ Call("speak_text_async", "") \notin call.failing
    /\ Call("save_to_wav_file", "") \notin call.failing

\* C16: when synthesis succeeds text_to_speech returns the blob URL if
\* upload_to_blob is True and the local file path if it is False; it returns
\* None only when synthesis failed.
SpeechResultIsUrlOrPath ==
    call.name = "text_to_speech" =>
        /\ (SynthesisSucceeded /\ call.upload_to_blob) => call.result = Str(<<"blob_client.url">>)
        /\ (SynthesisSucceeded /\ ~call.upload_to_blob) => call.result = Str(<<"temp_audio_output.wav">>)
        /\ call.result = None => ~SynthesisSucceeded

\* ---- C17
\* C17: with use_key_vault=False the Snowflake credentials loaded by
\* AppConfig are passed to the connector, and the connection is returned
\* whenever the connector accepts them.
LocalCredentialsReachConnector ==
    (call.name = "connect_to_snowflake" /\ ~call.use_key_vault) =>
        /\ \E i \in 1..Len(call.calls) : call.calls[i] = Call("connect", "")
        /\ Call("connect", "") \notin call.failing => call.connection = "Connection"

\* ---- C18
\* both required API keys resolved to non-empty values
RequiredKeysResolved ==
    call.secrets["Phi4MM_API_KEY"] # "" /\ call.secrets["AZURE_AI_API_KEY"] # ""

\* every secret is the Key Vault value when a client is configured and the
\* lookup succeeds, and the environment variable of the same name otherwise
SecretsResolved ==
    \A n \in SecretNames :
        call.secrets[n] = IF call.key_vault_client /\ n \notin call.vault.failing
                          THEN call.vault.values[n] ELSE EnvGet(env, n)

\* C18 as stated: secrets fall back to the environment; constructing
\* AppConfig succeeds only if both required keys resolved to non-empty
\* values, and raises ValueError otherwise.
ConstructionRaisesValueErrorOtherwise ==
    call.name = "AppConfig" =>
        /\ SecretsResolved
        /\ ~IsRaise(call.result) => RequiredKeysResolved
        /\ ~RequiredKeysResolved => (IsRaise(call.result) /\ call.result.exc = "ValueError")

\* C18, amended: secrets fall back to the environment; when creating the
\* Key Vault client raises, that exception leaves the constructor whatever
\* the keys are; otherwise constructing AppConfig succeeds exactly if both
\* required keys resolved to non-empty values and raises ValueError if not.
SecretsFallBackToEnvironment ==
    call.name = "AppConfig" =>
        /\ SecretsResolved
        /\ IF call.key_vault_client /\ call.vault.init_raises
           THEN IsRaise(call.result) /\ call.result.exc = "Exception"
           ELSE IF RequiredKeysResolved
           THEN /\ ~IsRaise(call.result)
                /\ call.result.multimodal_api_key = call.secrets["Phi4MM_API_KEY"]
                /\ call.result.azure_api_key = call.secrets["AZURE_AI_API_KEY"]
           ELSE IsRaise(call.result) /\ call.result.exc = "ValueError"

\* a configuration loaded with one key from the vault and the other, whose
\* lookup raised, from the environment
KeyFellBackToEnvironment ==
    /\ call.name = "AppConfig"
    /\ call.key_vault_client
    /\ "AZURE_AI_API_KEY" \in call.vault.failing
    /\ "Phi4MM_API_KEY" \notin call.vault.failing
    /\ ~IsRaise(call.result)
    /\ call.result.multimodal_api_key = "vault"
    /\ call.result.azure_api_key = "key"

\* ---- C19
\* C19: a script run of a session that is not logged in makes no call to
\* process_text_request or process_vision_request and no model call,
\* whatever mode is selected and whatever button is pressed; and a run that
\* does call one of them was handed a non-empty prompt.
RequestsOnlyWhenLoggedIn ==
    [][/\ ~logged_in => (requestsMade' = requestsMade /\ last'.calls = <<>>)
       /\ requestsMade' # requestsMade => (logged_in /\ last'.question # <<>>)]_vars

\* after a request was served and the user logged out, a button of the main
\* area was pressed and only the login notice was shown
PressedWhileLoggedOut ==
    /\ ~logged_in
    /\ requestsMade >= 1
    /\ event \in {"Submit", "Speak Request", "Analyze Webcam View"}
    /\ last.kind = "login_info"

\* ---- C21
\* C21: under fair scheduling of the polling loop, wait_for_job_completion
\* eventually ends for every submitted job, also for one that stays in a
\* non-terminal state.
WaitEventuallyEnds == <>(job.pc \in {"returned", "raised"})

\* ---- C22
\* connect_to_snowflake handed execute_query an open connection
ConnectionOpened ==
    /\ \E i \in 1..Len(op.calls) : op.calls[i] = Call("connect", "")
    /\ Call("connect", "") \notin op.failing

\* how often connection.close() was called
CloseCalls == Cardinality({i \in 1..Len(op.calls) : op.calls[i] = Call("close", "")})

\* cursor creation, execution or fetch raised
QueryFailed == \E i \in 1..3 : QueryCalls[i] \in op.failing

EnvelopeCreated ==
    /\ call.failing = {}
    /\ call.status_code = 201

\* C23: send_to_docusign never raises; it returns the API's JSON body only
\* when the HTTP status is 201, and in every other case (another status, an
\* unreadable file, a network error, an unparsable body) a dict with status
\* "error" and a message.
DocuSignFailureIsValue ==
    call.name = "send_to_docusign" =>
        /\ ~IsRaise(call.result)
        /\ call.result.type = "dict"
        /\ call.result = EnvelopeSummary => call.status_code = 201
        /\ EnvelopeCreated => call.result = EnvelopeSummary
        /\ ~EnvelopeCreated /\ call.result # EnvelopeSummary =>
            (call.result.status = "error" /\ call.result.message # <<>>)
        /\ (\E c \in call.failing : \E i \in 1..Len(call.calls) : call.calls[i] = c) =>
            call.result.status = "error"
        /\ call.status_code # 201 => call.result.status = "error"

\* a request answered with 200 is reported as an error value
OtherSuccessStatusIsError ==
    /\ call.name = "send_to_docusign"
    /\ call.failing = {}
    /\ call.status_code = 200
    /\ call.result = ErrorDict(<<"response.text">>)

\* ---- C24
\* C24: after transform has returned, by the path of a successful or of a
\* failed analysis, the temporary image file it wrote for the frame no
\* longer exists.
TempFileRemoved ==
    (call.name = "transform" /\ ~IsRaise(call.result)) => call.files = {}

\* ---- C25
\* C25: when transform calls of webcam processors run interleaved, the image
\* each call sends to the vision service is the image of its own input frame,
\* and the annotation on a returned frame was computed from that same frame.
FramesNotMixed ==
    \A s \in Sessions :
        LET w == stream.worker[s]
        IN /\ w.sent # NoImage => w.sent = w.img
           /\ (w.pc = "returned" /\ w.result.described # NoImage)
                 => w.result.described = w.result.pixels

\* ---- C26
\* the parts of a text that are neither whitespace nor the thoughts marker
IsResponseText(x) == x \notin {WS, THOUGHTS_MARKER}

ResponseTextOf(s) == SelectSeq(s, IsResponseText)

\* C26: format_text_response loses no response text: every non-whitespace
\* part of the output other than the marker is in the returned main response
\* or in the returned thoughts, also when the marker occurs more than once;
\* without the marker, thoughts is empty and the main response is the whole
\* stripped output.
NoResponseTextLost ==
    fmt.called =>
        /\ ResponseTextOf(fmt.input)
              = ResponseTextOf(fmt.main_response) \o ResponseTextOf(fmt.thoughts)
        /\ (~\E i \in 1..Len(fmt.input) : fmt.input[i] = THOUGHTS_MARKER)
              => (fmt.thoughts = <<>> /\ fmt.main_response = Strip(fmt.input))

====
